---- MODULE Spec2Model ----
(***************************************************************************)
(* PicnicAPI (picnic-planner): the authenticated request/retry wrapper     *)
(* makeRequest + handleAuthError, and the WebSocket connection, reconnect  *)
(* and subscription logic.  Strings that the code inspects (error          *)
(* messages, subscription keys) are sequences of tokens so that            *)
(* String.includes / split are computed and not assumed.                   *)
(***************************************************************************)
EXTENDS Integers, Sequences, FiniteSets, Bags, TLC

(* ---- program constants (PicnicAPI constructor) ---- *)
retryAttempts == 3
retryDelay == 1000
maxWsReconnectAttempts == 10
wsReconnectDelay == 1000

(* ---- bounds of the model ---- *)
MaxToken == 2
MaxExplicitCalls == 2
MaxSubOps == 2
MaxDispatches == 2
MaxDocs == 4
MaxExpenses == 3
MaxParticipants == 2
MaxQuantity == 3
MaxAssigns == 3
MaxRecords == 3
MaxLocal == 3
MaxEmitterOps == 5
MaxInits == 3
MaxUnsubscriberCalls == 2
MaxCreates == 2

(* The token getAuthToken() installs; refreshToken() answers 1..MaxToken. *)
InitialToken == 0
NoToken == InitialToken - 1
RefreshedTokens == 1..MaxToken

(* ---- errors and responses ---- *)
Err(name, message) == [name |-> name, message |-> message]
NoErr == Err("", <<>>)

(* String.prototype.includes over a tokenised message *)
includes(message, word) == \E i \in DOMAIN message : message[i] = word

(* What fetch() rejects with: the browser's TypeError, and the plain Error *)
(* the repository's own tests reject with.                                 *)
FetchErrors ==
    { Err("TypeError", <<"Failed", "to", "fetch">>),
      Err("Error", <<"Network", "error">>) }

JsonSyntaxError == Err("SyntaxError", <<"Unexpected", "token">>)
NullMessageError == Err("TypeError", <<"Cannot", "read", "properties", "of", "null">>)
AuthFailedError ==
    Err("Error", <<"Authentication", "failed.", "Please", "login", "again.">>)

Body(kind, message, value) == [kind |-> kind, message |-> message, value |-> value]
NoBody == Body("none", <<>>, "")
InvalidJson == Body("invalid", <<>>, "")
JsonNull == Body("null", <<>>, "")

OkBodies == { Body("object", <<>>, "v1"), Body("object", <<>>, "v2"), InvalidJson }
ErrorBodies ==
    { Body("object", <<>>, ""),
      Body("object", <<"Resource", "not", "found">>, ""),
      Body("object", <<"Could", "not", "fetch", "record">>, ""),
      InvalidJson,
      JsonNull }

Response(status, body) == [status |-> status, body |-> body]
NoResp == Response(0, NoBody)
Responses ==
    { Response(200, b) : b \in OkBodies }
        \cup { Response(401, b) : b \in { Body("object", <<"Token", "expired">>, ""), InvalidJson } }
        \cup { Response(s, b) : s \in {404, 500}, b \in ErrorBodies }

ok(response) == response.status >= 200 /\ response.status <= 299

statusText(status) ==
    CASE status = 401 -> <<"Unauthorized">>
      [] status = 404 -> <<"Not", "Found">>
      [] status = 500 -> <<"Internal", "Server", "Error">>
      [] OTHER -> <<>>

(* `HTTP ${response.status}: ${response.statusText}` *)
StatusLine(response) ==
    <<"HTTP", ToString(response.status) \o ":">> \o statusText(response.status)

VARIABLES
    auth,               \* this.auth: the stored bearer token
    refreshAvailable,   \* window.olamoAuth && window.olamoAuth.refreshToken
    call,               \* the makeRequest call being followed; the calls in
                        \* flight beside it act on it only through this.auth
                        \* (see OtherCallRefreshes)
    lastRefreshed,      \* history: the token refreshToken() answered last
    ws,                 \* this.ws: "null", or the readyState of the socket it holds
    stale,              \* sockets this client created, no longer held by this.ws,
                        \* whose close event is still to come: readyState -> count
    wsCtorThrows,       \* whether `new WebSocket(url)` throws on this page
    wsReconnectAttempts,\* this.wsReconnectAttempts
    timers,             \* pending scheduleReconnect timers: delays, oldest first
    subscriptions,      \* this.subscriptions: key -> callback
    eventHandlers,      \* this.eventHandlers: event -> set of handlers
    wsHist,             \* history of the connection (see WsHistInit)
    lastCall,           \* history: the last subscribe / unsubscribe /
                        \* sendWebSocketMessage call and the frames it sent
    disp,               \* the handleWebSocketMessage call in progress, or the
                        \* last one (see NoDispatch)
    docs,               \* the documents the backend holds
    task,               \* the createPicnic / deletePicnic call being followed
    summary,            \* the getExpenseSummary call being followed
    item,               \* an item of a picnic: the backend's document, the
                        \* application's copy and the assignToMe call in progress
    rsvp,               \* the participant records of the backend, PicnicApp's
                        \* participants list and its submitRSVP call
    emitter,            \* this.eventHandlers of a client used as an event
                        \* emitter (on / off / emit), each Set in insertion order
    todo,               \* TodoAPI.initializeCollection: the call being followed
                        \* and whether the backend has the todos collection
    unsubscribers,      \* the functions subscribe returned that the owner holds
    lists               \* PicnicApp's picnics and participants lists, the
                        \* backend's documents and the events still to arrive

reqVars == <<auth, refreshAvailable, call, lastRefreshed>>

wsVars == <<ws, stale, wsCtorThrows, wsReconnectAttempts, timers,
            subscriptions, eventHandlers, wsHist>>

msgVars == <<lastCall, disp>>

dataVars == <<docs, task>>

appVars == <<summary, item, rsvp, emitter, todo, unsubscribers, lists>>

vars == <<auth, refreshAvailable, call, lastRefreshed,
          ws, stale, wsCtorThrows, wsReconnectAttempts, timers,
          subscriptions, eventHandlers, wsHist, lastCall, disp, docs, task,
          summary, item, rsvp, emitter, todo, unsubscribers, lists>>

(* the variables of the API client's requests, socket, dispatch and        *)
(* documents                                                               *)
apiVars == <<reqVars, wsVars, msgVars, dataVars>>

(* what the actions on one of the application's variables leave alone *)
summaryFrame == <<apiVars, item, rsvp, emitter, todo, unsubscribers, lists>>
itemFrame == <<apiVars, summary, rsvp, emitter, todo, unsubscribers, lists>>
rsvpFrame == <<apiVars, summary, item, emitter, todo, unsubscribers, lists>>
emitterFrame == <<apiVars, summary, item, rsvp, todo, unsubscribers, lists>>
todoFrame == <<apiVars, summary, item, rsvp, emitter, unsubscribers, lists>>
listsFrame == <<apiVars, summary, item, rsvp, emitter, todo, unsubscribers>>

(* pc: where the async function is suspended.  The counters, waits, lastSent, *)
(* refAtSend, httpErrAt, refreshFailedAt and after401Ok are history.          *)
IdleCall ==
    [ pc |-> "idle", retryCount |-> 0, resp |-> NoResp,
      fetches |-> 0, authCalls |-> 0, replays |-> 0, n401 |-> 0, nNet |-> 0,
      waits |-> <<>>, lastSent |-> NoToken, refAtSend |-> NoToken,
      httpErrAt |-> 0, refreshFailedAt |-> 0, authAtFail |-> NoToken,
      authAfterFail |-> NoToken,
      after401Ok |-> FALSE,
      result |-> NoBody, err |-> NoErr ]

(* makeRequest's entry up to `await fetch(url, options)`: the header is    *)
(* built from this.auth at the moment of the call.                         *)
SendFetch(c, retryCount, token, refreshed) ==
    [ c EXCEPT !.pc = "fetch", !.retryCount = retryCount,
               !.fetches = @ + 1, !.lastSent = token, !.refAtSend = refreshed ]

(* mutant: every error is retried, not only network errors *)
ShouldRetryAnyError(retryCount, error) == retryCount < retryAttempts

(* the condition of the catch block's retry *)
ShouldRetry(retryCount, error) ==
    retryCount < retryAttempts
        /\ (error.name = "TypeError" \/ includes(error.message, "fetch"))

(* catch (error) { ... } of makeRequest *)
Catch(c, error) ==
    IF ShouldRetry(c.retryCount, error)
    THEN [ c EXCEPT !.pc = "sleep",
                    !.waits = Append(@, retryDelay * (c.retryCount + 1)) ]
    ELSE [ c EXCEPT !.pc = "rejected", !.err = error ]

(* errorData.message || `HTTP ${status}: ${statusText}` *)
ErrorMessage(response) ==
    IF response.body.kind = "object" /\ response.body.message # <<>>
    THEN response.body.message
    ELSE StatusLine(response)

(* if (!response.ok) { ... throw new Error(...) }, thrown into the catch;  *)
(* a body that parses to null makes `errorData.message` itself throw.      *)
NotOk(c, response) ==
    IF response.body.kind = "null"
    THEN Catch(c, NullMessageError)
    ELSE Catch(c, Err("Error", ErrorMessage(response)))

(* return await response.json() *)
ParseOk(c, response) ==
    IF response.body.kind = "invalid"
    THEN Catch(c, JsonSyntaxError)
    ELSE [ c EXCEPT !.pc = "resolved", !.result = response.body ]

(* mutant: the replay after a 401 keeps the retry count *)
AfterAuthSameCount(c, response, token, refreshed) ==
    IF c.retryCount < retryAttempts
    THEN [ SendFetch(c, c.retryCount, token, refreshed)
             EXCEPT !.replays = @ + 1 ]
    ELSE NotOk(c, response)

(* after handleAuthError() returned: replay, or fall through to !ok *)
AfterAuth(c, response, token, refreshed) ==
    IF c.retryCount < retryAttempts
    THEN [ SendFetch(c, c.retryCount + 1, token, refreshed)
             EXCEPT !.replays = @ + 1 ]
    ELSE NotOk(c, response)

Settled(c) == c.pc \in {"resolved", "rejected"}

(* the call went: one 401, a refresh that succeeded, a replay that succeeded *)
Single401Ok(c) ==
    c.pc = "resolved" /\ c.n401 = 1 /\ c.fetches = 2 /\ c.authCalls = 1

ReqInit ==
    /\ auth = InitialToken
    /\ refreshAvailable \in BOOLEAN
    /\ call = IdleCall
    /\ lastRefreshed = NoToken

(* a caller invokes makeRequest(endpoint, method, data) *)
makeRequest ==
    /\ call.pc = "idle" \/ Settled(call)
    /\ call' = SendFetch([IdleCall EXCEPT
                            !.after401Ok = refreshAvailable /\ Single401Ok(call)],
                         0, auth, lastRefreshed)
    /\ UNCHANGED <<auth, refreshAvailable, lastRefreshed, wsVars, msgVars, appVars, dataVars>>

(* fetch rejects: a transport-level failure *)
FetchRejects ==
    /\ call.pc = "fetch"
    /\ \E e \in FetchErrors :
         call' = Catch([call EXCEPT !.nNet = @ + 1], e)
    /\ UNCHANGED <<auth, refreshAvailable, lastRefreshed, wsVars, msgVars, appVars, dataVars>>

(* fetch resolves with a response *)
FetchResponds ==
    /\ call.pc = "fetch"
    /\ \E r \in Responses :
         LET c0 == [call EXCEPT !.resp = r] IN
         call' =
            IF r.status = 401
            THEN LET c401 == [c0 EXCEPT !.n401 = @ + 1, !.authCalls = @ + 1] IN
                 IF refreshAvailable
                 THEN [c401 EXCEPT !.pc = "refresh"]
                 ELSE AfterAuth(c401, r, auth, lastRefreshed)
            ELSE IF ~ok(r)
            THEN NotOk([c0 EXCEPT !.httpErrAt = c0.fetches], r)
            ELSE ParseOk(c0, r)
    /\ UNCHANGED <<auth, refreshAvailable, lastRefreshed, wsVars, msgVars, appVars, dataVars>>

(* mutant: the refreshed token is used for the replay only, not stored *)
StoreTokenKeepsOld(old, token) == old

(* the token handleAuthError stores when refreshToken() answers `token` *)
StoreToken(old, token) == token

(* handleAuthError: this.auth = await window.olamoAuth.refreshToken() *)
RefreshResolves ==
    /\ call.pc = "refresh"
    /\ \E t \in RefreshedTokens :
         /\ auth' = StoreToken(auth, t)
         /\ lastRefreshed' = t
    /\ call' = [call EXCEPT !.pc = "afterRefresh"]
    /\ UNCHANGED <<refreshAvailable, wsVars, msgVars, appVars, dataVars>>

(* makeRequest resumes after `await this.handleAuthError()` *)
AfterRefresh ==
    /\ call.pc = "afterRefresh"
    /\ call' = AfterAuth(call, call.resp, auth, lastRefreshed)
    /\ UNCHANGED <<auth, refreshAvailable, lastRefreshed, wsVars, msgVars, appVars, dataVars>>

(* this.auth when the awaited refreshToken() rejects: the assignment of    *)
(* handleAuthError is never reached                                        *)
TokenAfterFailedRefresh(old) == old

(* refreshToken() rejects: handleAuthError throws 'Authentication failed'  *)
RefreshRejects ==
    /\ call.pc = "refresh"
    /\ auth' = TokenAfterFailedRefresh(auth)
    /\ call' = Catch([call EXCEPT !.refreshFailedAt = call.fetches,
                                  !.authAtFail = auth,
                                  !.authAfterFail = auth'],
                     AuthFailedError)
    /\ UNCHANGED <<refreshAvailable, lastRefreshed, wsVars, msgVars, appVars, dataVars>>

(* another makeRequest call in flight got a 401 and its handleAuthError    *)
(* stored the token its refreshToken() answered                            *)
OtherCallRefreshes ==
    /\ refreshAvailable
    /\ \E t \in RefreshedTokens :
         /\ auth' = StoreToken(auth, t)
         /\ lastRefreshed' = t
    /\ UNCHANGED <<call, refreshAvailable, wsVars, msgVars, appVars, dataVars>>

(* the setTimeout of the catch block fires: makeRequest(.., retryCount+1)  *)
RetryTimer ==
    /\ call.pc = "sleep"
    /\ call' = SendFetch(call, call.retryCount + 1, auth, lastRefreshed)
    /\ UNCHANGED <<auth, refreshAvailable, lastRefreshed, wsVars, msgVars, appVars, dataVars>>

ReqNext ==
    \/ makeRequest
    \/ FetchRejects
    \/ FetchResponds
    \/ RefreshResolves
    \/ AfterRefresh
    \/ RefreshRejects
    \/ RetryTimer
    \/ OtherCallRefreshes

(***************************************************************************)
(* WebSocket connection, reconnect scheduling and teardown                 *)
(***************************************************************************)

(* A Map is kept as its entries in insertion order (forEach visits them    *)
(* in that order).                                                         *)
Entry(key, callback) == [key |-> key, callback |-> callback]

Keys(m) == { m[i].key : i \in DOMAIN m }

(* Map.prototype.has *)
MapHas(m, k) == k \in Keys(m)

(* the position of key k, 0 when absent *)
IndexOf(m, k) == IF MapHas(m, k) THEN CHOOSE i \in DOMAIN m : m[i].key = k ELSE 0

(* Map.prototype.get *)
MapGet(m, k) == m[IndexOf(m, k)].callback

RECURSIVE Pow2(_)
(* Math.pow(2, n) *)
Pow2(n) == IF n <= 0 THEN 1 ELSE 2 * Pow2(n - 1)

NoAttempt == [n |-> -1, delay |-> 0]
NoOpen == [keys |-> {}, frames |-> <<>>]

NoStale == [CONNECTING |-> 0, OPEN |-> 0, CLOSING |-> 0]

(* sockets of this client that are connecting or open *)
LiveSockets ==
    (IF ws \in {"CONNECTING", "OPEN"} THEN 1 ELSE 0) + stale.CONNECTING + stale.OPEN

(* `ws:${type}` *)
EventName(type) == <<"ws", ":">> \o type

WsEvents == { EventName(<<"connected">>), EventName(<<"disconnected">>) }
Handlers == {"h1"}

(* history of the connection:                                              *)
(*   destroyed              destroy() has been called                      *)
(*   scheduledAfterDestroy  a reconnect timer was set after destroy()      *)
(*   createdAfterDestroy    a WebSocket was constructed after destroy()    *)
(*   explicitCalls          connectWebSocket/scheduleReconnect calls made  *)
(*                          by the owner (bounded by MaxExplicitCalls)     *)
(*   attemptsSinceOpen      reconnect attempts since the last open         *)
(*   lastAttempt            index (from 0) and delay of the last attempt   *)
(*   gaveUp                 scheduleReconnect found the cap reached        *)
(*   closes, disconnectedEmits, delivered                                  *)
(*                          close events, emit('ws:disconnected') calls    *)
(*                          and handler invocations since the last open    *)
(*   scheduledAtCap         a close set a timer with the counter at the cap*)
(*   lastOpen               subscription keys at the last open and the     *)
(*                          control frames the open handler sent           *)
(*   subOps                 subscribe/unsubscribe calls made, by the owner *)
(*                          or from inside a handler or callback (bounded  *)
(*                          by MaxSubOps)                                  *)
(*   net                    the net effect of those calls, kept per        *)
(*                          (collection, eventType) pair and not per key:  *)
(*                          pair -> the callback registered last           *)
WsHistInit ==
    [ destroyed |-> FALSE, scheduledAfterDestroy |-> FALSE,
      createdAfterDestroy |-> FALSE, explicitCalls |-> 0,
      attemptsSinceOpen |-> 0, lastAttempt |-> NoAttempt, gaveUp |-> FALSE,
      closes |-> 0, disconnectedEmits |-> 0, delivered |-> 0,
      scheduledAtCap |-> FALSE, lastOpen |-> NoOpen, subOps |-> 0,
      net |-> <<>> ]

WsInit ==
    /\ ws = "null"
    /\ stale = NoStale
    /\ wsCtorThrows \in BOOLEAN
    /\ wsReconnectAttempts = 0
    /\ timers = <<>>
    /\ subscriptions = <<>>
    /\ eventHandlers = <<>>
    /\ wsHist = WsHistInit

(* no handleWebSocketMessage call is running: a dispatch runs to its end   *)
(* before any other event or call is served                                *)
Quiet == disp.pc \in {"idle", "done"}

(* mutant: emit calls no handler *)
emitNothing(handlers, event) == {}

(* emit(event): the handlers it invokes *)
emit(handlers, event) ==
    IF event \in DOMAIN handlers THEN handlers[event] ELSE {}

(* mutant: the cap is tested with <= *)
MayReconnectOffByOne(attempts) == attempts <= maxWsReconnectAttempts

(* the guard of scheduleReconnect *)
MayReconnect(attempts) == attempts < maxWsReconnectAttempts

(* scheduleReconnect(): the timers after it ran with the counter `attempts` *)
scheduleReconnect(ts, attempts) ==
    IF MayReconnect(attempts)
    THEN Append(ts, wsReconnectDelay * Pow2(attempts))
    ELSE ts

(* the guard of connectWebSocket: it returns at once when this holds *)
AlreadyConnected(w) == w = "OPEN"

(* this.ws is overwritten (or nulled): the socket it held lives on until   *)
(* its close event                                                         *)
Retire(w, st) ==
    IF w \in {"CONNECTING", "OPEN", "CLOSING"}
    THEN [st EXCEPT ![w] = @ + 1]
    ELSE st

(* connectWebSocket() run on (this.ws, stale sockets, timers, counter) *)
ConnectWebSocket(w, st, ts, attempts) ==
    IF AlreadyConnected(w)
    THEN [ws |-> w, stale |-> st, timers |-> ts, created |-> FALSE, scheduled |-> FALSE]
    ELSE IF wsCtorThrows
    THEN [ws |-> w, stale |-> st, timers |-> scheduleReconnect(ts, attempts),
          created |-> FALSE, scheduled |-> MayReconnect(attempts)]
    ELSE [ws |-> "CONNECTING", stale |-> Retire(w, st), timers |-> ts,
          created |-> TRUE, scheduled |-> FALSE]

RemoveAt(s, i) == SubSeq(s, 1, i - 1) \o SubSeq(s, i + 1, Len(s))

(* a timer cannot fire before one set earlier with a delay no longer *)
CanFire(ts, i) == \A j \in 1..(i - 1) : ts[j] > ts[i]

(* the owner calls connectWebSocket() (initialize() does) *)
connectWebSocket ==
    /\ ~wsHist.destroyed
    /\ Quiet
    /\ wsHist.explicitCalls < MaxExplicitCalls
    /\ LET r == ConnectWebSocket(ws, stale, timers, wsReconnectAttempts) IN
         /\ ws' = r.ws
         /\ stale' = r.stale
         /\ timers' = r.timers
    /\ wsHist' = [wsHist EXCEPT !.explicitCalls = @ + 1]
    /\ UNCHANGED <<wsCtorThrows, wsReconnectAttempts, subscriptions, eventHandlers,
                   reqVars, msgVars, appVars, dataVars>>

(* the owner calls scheduleReconnect() directly *)
scheduleReconnectCall ==
    /\ ~wsHist.destroyed
    /\ wsHist.explicitCalls < MaxExplicitCalls
    /\ timers' = scheduleReconnect(timers, wsReconnectAttempts)
    /\ wsHist' = [wsHist EXCEPT !.explicitCalls = @ + 1,
                                !.gaveUp = @ \/ ~MayReconnect(wsReconnectAttempts)]
    /\ UNCHANGED <<ws, stale, wsCtorThrows, wsReconnectAttempts, subscriptions,
                   eventHandlers,
                   reqVars, msgVars, appVars, dataVars>>

(* the control frames the onopen handler sends *)
OnOpenFrames(subs) == <<>>

(* ws.onopen: reset the counter, emit('ws:connected').  (ws.onerror only   *)
(* emits 'ws:error' and changes nothing; it is not modelled.)              *)
OnOpen ==
    /\ wsReconnectAttempts' = 0
    /\ wsHist' = [wsHist EXCEPT !.attemptsSinceOpen = 0, !.gaveUp = FALSE,
                                !.closes = 0, !.disconnectedEmits = 0,
                                !.delivered = 0,
                                !.lastOpen = [keys |-> Keys(subscriptions),
                                              frames |-> OnOpenFrames(subscriptions)]]
    /\ UNCHANGED <<wsCtorThrows, timers, subscriptions, eventHandlers,
                   reqVars, msgVars, appVars, dataVars>>

(* the socket held by this.ws opens *)
SocketOpens ==
    /\ Quiet
    /\ ws = "CONNECTING"
    /\ ws' = "OPEN"
    /\ UNCHANGED stale
    /\ OnOpen

(* a socket no longer held by this.ws opens: its handlers still run *)
StaleSocketOpens ==
    /\ stale.CONNECTING > 0
    /\ stale' = [stale EXCEPT !.CONNECTING = @ - 1, !.OPEN = @ + 1]
    /\ UNCHANGED ws
    /\ OnOpen

(* ws.onclose: emit('ws:disconnected'), scheduleReconnect() *)
OnClose ==
    /\ timers' = scheduleReconnect(timers, wsReconnectAttempts)
    /\ wsHist' = [wsHist EXCEPT
          !.closes = @ + 1,
          !.disconnectedEmits = @ + 1,
          !.delivered = @ + Cardinality(emit(eventHandlers, EventName(<<"disconnected">>))),
          !.scheduledAtCap =
              @ \/ (wsReconnectAttempts >= maxWsReconnectAttempts /\ timers' # timers),
          !.gaveUp = @ \/ ~MayReconnect(wsReconnectAttempts),
          !.scheduledAfterDestroy =
              @ \/ (wsHist.destroyed /\ MayReconnect(wsReconnectAttempts))]
    /\ UNCHANGED <<wsCtorThrows, wsReconnectAttempts, subscriptions, eventHandlers,
                   reqVars, msgVars, appVars, dataVars>>

(* the socket held by this.ws closes: the attempt failed, or the           *)
(* connection dropped                                                      *)
SocketCloses ==
    /\ Quiet
    /\ ws \in {"CONNECTING", "OPEN", "CLOSING"}
    /\ ws' = "CLOSED"
    /\ UNCHANGED stale
    /\ OnClose

(* the close event of a socket no longer held by this.ws *)
StaleSocketCloses ==
    /\ \E st \in {"CONNECTING", "OPEN", "CLOSING"} :
         /\ stale[st] > 0
         /\ stale' = [stale EXCEPT ![st] = @ - 1]
    /\ UNCHANGED ws
    /\ OnClose

(* a scheduleReconnect timer fires: wsReconnectAttempts++; connectWebSocket() *)
ReconnectTimer ==
    \E i \in DOMAIN timers :
      /\ CanFire(timers, i)
      /\ LET attempts == wsReconnectAttempts + 1
             r == ConnectWebSocket(ws, stale, RemoveAt(timers, i), attempts)
             tried == ~AlreadyConnected(ws)
         IN
         /\ wsReconnectAttempts' = attempts
         /\ ws' = r.ws
         /\ stale' = r.stale
         /\ timers' = r.timers
         /\ wsHist' = [wsHist EXCEPT
               !.attemptsSinceOpen = IF tried THEN @ + 1 ELSE @,
               !.lastAttempt = IF tried
                               THEN [n |-> wsHist.attemptsSinceOpen, delay |-> timers[i]]
                               ELSE @,
               !.gaveUp = @ \/ (tried /\ wsCtorThrows /\ ~MayReconnect(attempts)),
               !.createdAfterDestroy = @ \/ (wsHist.destroyed /\ r.created),
               !.scheduledAfterDestroy = @ \/ (wsHist.destroyed /\ r.scheduled)]
      /\ UNCHANGED <<wsCtorThrows, subscriptions, eventHandlers,
                   reqVars, msgVars, appVars, dataVars>>

(* the socket destroy() leaves behind after ws.close() *)
CloseSocket(w, st) ==
    IF w \in {"CONNECTING", "OPEN", "CLOSING"}
    THEN [st EXCEPT !.CLOSING = @ + 1]
    ELSE st

(* destroy(): close and drop the socket, clear subscriptions and handlers *)
destroy ==
    /\ ~wsHist.destroyed
    /\ stale' = CloseSocket(ws, stale)
    /\ ws' = "null"
    /\ subscriptions' = <<>>
    /\ eventHandlers' = <<>>
    /\ wsHist' = [wsHist EXCEPT !.destroyed = TRUE, !.net = <<>>]
    /\ UNCHANGED <<wsCtorThrows, wsReconnectAttempts, timers, reqVars, msgVars, appVars, dataVars>>

(* on(event, callback), for an event among `events` *)
On(events) ==
    /\ ~wsHist.destroyed
    /\ Quiet
    /\ \E e \in events, h \in Handlers :
         /\ h \notin emit(eventHandlers, e)
         /\ eventHandlers' =
              [x \in DOMAIN eventHandlers \cup {e} |->
                  IF x = e THEN emit(eventHandlers, e) \cup {h} ELSE eventHandlers[x]]
    /\ UNCHANGED <<ws, stale, wsCtorThrows, wsReconnectAttempts, timers,
                   subscriptions, wsHist,
                   reqVars, msgVars, appVars, dataVars>>

(* the owner listens to the connection's events *)
on == On(WsEvents)

(***************************************************************************)
(* Subscriptions                                                           *)
(***************************************************************************)

Collections == { <<"picnics">>, <<"picnic_items">> }
NoEventType == <<>>
EventTypes == { NoEventType, <<"document_created">> }
Callbacks == {"cb1", "cb2"}

(* const key = eventType ? `${collection}:${eventType}` : collection *)
SubKey(collection, eventType) ==
    IF eventType # NoEventType THEN collection \o <<":">> \o eventType ELSE collection

Frame(type, collection, eventType) ==
    [type |-> type, collection |-> collection, eventType |-> eventType]

(* mutant: a key that is already registered keeps its first callback *)
MapSetKeepsFirst(m, k, v) ==
    IF MapHas(m, k) THEN m ELSE Append(m, Entry(k, v))

(* Map.prototype.set: a new key goes last, a known key keeps its place *)
MapSet(m, k, v) ==
    IF MapHas(m, k)
    THEN [i \in DOMAIN m |-> IF m[i].key = k THEN Entry(k, v) ELSE m[i]]
    ELSE Append(m, Entry(k, v))

(* mutant: nothing is deleted *)
MapDeleteNothing(m, k) == m

(* Map.prototype.delete *)
MapDelete(m, k) == SelectSeq(m, LAMBDA entry : entry.key # k)

(* this.ws && this.ws.readyState === WebSocket.OPEN *)
CanSend(w) == w = "OPEN"

(* mutant: the frame is sent whatever the socket's state *)
SentFramesAlways(w, frame) == <<frame>>

(* mutant: no frame is ever sent *)
SentFramesNever(w, frame) == <<>>

(* if (this.ws && this.ws.readyState === WebSocket.OPEN) this.ws.send(..): *)
(* the frames handed to ws.send                                            *)
SentFrames(w, frame) == IF CanSend(w) THEN <<frame>> ELSE <<>>

(* replaced: the callback the key held before a subscribe call, "" if none *)
NoCall ==
    [ op |-> "none", collection |-> <<>>, eventType |-> NoEventType,
      callback |-> "", replaced |-> "", open |-> FALSE, sent |-> <<>>,
      threw |-> FALSE ]

(* the net effect, per (collection, eventType) pair, after a registration *)
NetSet(net, pair, callback) ==
    [x \in DOMAIN net \cup {pair} |-> IF x = pair THEN callback ELSE net[x]]

(* the net effect after a removal *)
NetDelete(net, pair) == [x \in DOMAIN net \ {pair} |-> net[x]]

(* the body of subscribe(collection, callback, eventType); it has no throw *)
(* statement and ws.send is only reached on an OPEN socket                 *)
Subscribe(collection, callback, eventType) ==
    /\ subscriptions' = MapSet(subscriptions, SubKey(collection, eventType), callback)
    /\ lastCall' = [ op |-> "subscribe", collection |-> collection,
                     eventType |-> eventType, callback |-> callback,
                     replaced |-> IF MapHas(subscriptions, SubKey(collection, eventType))
                                  THEN MapGet(subscriptions, SubKey(collection, eventType))
                                  ELSE "",
                     open |-> CanSend(ws),
                     sent |-> SentFrames(ws, Frame("subscribe", collection, eventType)),
                     threw |-> FALSE ]
    /\ wsHist' = [wsHist EXCEPT
          !.subOps = @ + 1,
          !.net = NetSet(@, <<collection, eventType>>, callback)]

(* the body of unsubscribe(collection, eventType); the function subscribe  *)
(* returns calls it with the pair it was created for                       *)
Unsubscribe(collection, eventType) ==
    /\ subscriptions' = MapDelete(subscriptions, SubKey(collection, eventType))
    /\ lastCall' = [ op |-> "unsubscribe", collection |-> collection,
                     eventType |-> eventType, callback |-> "", replaced |-> "",
                     open |-> CanSend(ws),
                     sent |-> SentFrames(ws, Frame("unsubscribe", collection, eventType)),
                     threw |-> FALSE ]
    /\ wsHist' = [wsHist EXCEPT
          !.subOps = @ + 1,
          !.net = NetDelete(@, <<collection, eventType>>)]

(* subscribe(collection, callback, eventType) *)
subscribe ==
    /\ ~wsHist.destroyed
    /\ Quiet
    /\ wsHist.subOps < MaxSubOps
    /\ \E c \in Collections, cb \in Callbacks, e \in EventTypes :
         /\ Subscribe(c, cb, e)
         /\ disp' = [disp EXCEPT !.removed = @ \ {SubKey(c, e)},
                                 !.staleKeys = @ \ {SubKey(c, e)}]
    /\ UNCHANGED <<ws, stale, wsCtorThrows, wsReconnectAttempts, timers,
                   eventHandlers, reqVars, appVars, dataVars>>

(* unsubscribe(collection, eventType) *)
unsubscribe ==
    /\ ~wsHist.destroyed
    /\ Quiet
    /\ wsHist.subOps < MaxSubOps
    /\ \E c \in Collections, e \in EventTypes : Unsubscribe(c, e)
    /\ UNCHANGED <<ws, stale, wsCtorThrows, wsReconnectAttempts, timers,
                   eventHandlers, disp, reqVars, appVars, dataVars>>

(* sendWebSocketMessage(message) *)
sendWebSocketMessage ==
    /\ ~wsHist.destroyed
    /\ Quiet
    /\ lastCall' = [ NoCall EXCEPT
          !.op = "send", !.open = CanSend(ws),
          !.sent = SentFrames(ws, Frame("test", <<>>, NoEventType)) ]
    /\ UNCHANGED <<wsVars, disp, reqVars, appVars, dataVars>>

(***************************************************************************)
(* Inbound messages: handleWebSocketMessage                                *)
(***************************************************************************)

NoCollection == <<>>
MessageTypes == { <<"document_created">>, <<"document_updated">> }

Message(type, collection, data, id) ==
    [type |-> type, collection |-> collection, data |-> data, id |-> id]

NoMessage == Message(<<>>, NoCollection, "", "")

Messages ==
    { Message(t, <<"picnics">>, "d1", "id1") : t \in MessageTypes }
        \cup { Message(<<"document_created">>, c, "d1", "id1") :
                  c \in { <<"picnic_items">>, NoCollection } }

(* `ws:${collection}:${type}` *)
CollectionEventName(collection, type) == <<"ws", ":">> \o collection \o <<":">> \o type

(* the events the owner listens to for inbound messages *)
MessageEvents ==
    { EventName(<<"document_created">>),
      CollectionEventName(<<"picnics">>, <<"document_created">>) }

(* a field the object passed to a handler does not have *)
Omitted == <<"omitted">>

(* { collection, data, id } *)
GenericArg(m) == Message(Omitted, m.collection, m.data, m.id)

(* { data, id } *)
CollectionArg(m) == Message(Omitted, Omitted, m.data, m.id)

(* { type, collection, data, id } *)
SubscriptionArg(m) == Message(m.type, m.collection, m.data, m.id)

RECURSIVE split(_)
(* String.prototype.split(':') *)
split(s) ==
    IF \E i \in DOMAIN s : s[i] = ":"
    THEN LET i == CHOOSE j \in DOMAIN s : s[j] = ":" /\ \A h \in 1..(j - 1) : s[h] # ":"
         IN <<SubSeq(s, 1, i - 1)>> \o split(SubSeq(s, i + 1, Len(s)))
    ELSE <<s>>

(* const [subCollection, subType] = subscriptionKey.split(':');            *)
(* collection === subCollection && (!subType || subType === type)          *)
Matches(subscriptionKey, m) ==
    LET parts == split(subscriptionKey)
        subCollection == parts[1]
        subType == IF Len(parts) >= 2 THEN parts[2] ELSE NoEventType
    IN /\ m.collection # NoCollection
       /\ m.collection = subCollection
       /\ (subType = NoEventType \/ subType = m.type)

(* pc: "generic" (the first emit), "collection" (the second emit), "subs"  *)
(* (subscriptions.forEach), "done".  pending: the handlers the running     *)
(* emit has still to call; cursor: the entries forEach has visited; log:   *)
(* the invocations made, in order; threw: a subscription callback threw    *)
(* and ended the forEach.  History: handlerThrew tells that a handler of   *)
(* one of the emits threw, n counts the dispatches, reentered              *)
(* tells that a handler or callback of this dispatch called subscribe or   *)
(* unsubscribe, removed holds the keys unsubscribed during this dispatch,  *)
(* staleKeys those unsubscribed during an earlier dispatch and not         *)
(* registered again.                                                       *)
NoDispatch ==
    [ pc |-> "idle", msg |-> NoMessage, pending |-> {}, cursor |-> 0,
      log |-> <<>>, threw |-> FALSE, handlerThrew |-> FALSE, n |-> 0,
      reentered |-> FALSE, removed |-> {}, staleKeys |-> {} ]

Invocation(pass, who, key, arg) ==
    [pass |-> pass, who |-> who, key |-> key, arg |-> arg]

RECURSIVE Advance(_, _, _)
(* move on past an emit with nothing left to call and past the end of the  *)
(* forEach                                                                 *)
Advance(d, handlers, subs) ==
    IF d.pc = "generic" /\ d.pending = {}
    THEN IF d.msg.collection # NoCollection
         THEN Advance([d EXCEPT !.pc = "collection",
                                !.pending = emit(handlers,
                                    CollectionEventName(d.msg.collection, d.msg.type))],
                      handlers, subs)
         ELSE Advance([d EXCEPT !.pc = "subs", !.cursor = 0], handlers, subs)
    ELSE IF d.pc = "collection" /\ d.pending = {}
    THEN Advance([d EXCEPT !.pc = "subs", !.cursor = 0], handlers, subs)
    ELSE IF d.pc = "subs" /\ d.cursor >= Len(subs)
    THEN [d EXCEPT !.pc = "done"]
    ELSE d

(* ws.onmessage parsed a frame (or the owner calls the method): the        *)
(* dispatch starts with the first emit                                     *)
handleWebSocketMessage ==
    /\ ~wsHist.destroyed
    /\ Quiet
    /\ disp.n < MaxDispatches
    /\ \E m \in Messages :
         disp' = Advance([ NoDispatch EXCEPT
                             !.pc = "generic", !.msg = m,
                             !.pending = emit(eventHandlers, EventName(m.type)),
                             !.n = disp.n + 1,
                             !.staleKeys = disp.staleKeys \cup disp.removed ],
                         eventHandlers, subscriptions)
    /\ UNCHANGED <<wsVars, lastCall, reqVars, appVars, dataVars>>

(* what a handler or a subscription callback does when it is called *)
Behaviours == {"return", "throw", "subscribe", "unsubscribe"}

(* the handler or callback body runs: it returns, throws, or calls         *)
(* subscribe / unsubscribe before it returns                               *)
RunBody(b) ==
    \/ /\ b \in {"return", "throw"}
       /\ UNCHANGED <<subscriptions, lastCall, wsHist>>
    \/ /\ b = "subscribe"
       /\ wsHist.subOps < MaxSubOps
       /\ \E c \in Collections, cb \in Callbacks, e \in EventTypes :
            Subscribe(c, cb, e)
    \/ /\ b = "unsubscribe"
       /\ wsHist.subOps < MaxSubOps
       /\ \E c \in Collections, e \in EventTypes : Unsubscribe(c, e)

(* the history of a dispatch after a body ran *)
NoteBody(d, b) ==
    [d EXCEPT
       !.reentered = @ \/ b \in {"subscribe", "unsubscribe"},
       !.removed = IF b = "unsubscribe"
                   THEN @ \cup {SubKey(lastCall'.collection, lastCall'.eventType)}
                   ELSE IF b = "subscribe"
                   THEN @ \ {SubKey(lastCall'.collection, lastCall'.eventType)}
                   ELSE @,
       !.staleKeys = IF b = "subscribe"
                     THEN @ \ {SubKey(lastCall'.collection, lastCall'.eventType)}
                     ELSE @]

(* emit(event, data): the forEach calls the next handler inside try/catch, *)
(* so a handler that throws does not end the loop                          *)
InvokeHandler ==
    /\ disp.pc \in {"generic", "collection"}
    /\ \E h \in disp.pending, b \in Behaviours :
         /\ RunBody(b)
         /\ LET pass == IF disp.pc = "generic" THEN 1 ELSE 2
                event == IF disp.pc = "generic"
                         THEN EventName(disp.msg.type)
                         ELSE CollectionEventName(disp.msg.collection, disp.msg.type)
                arg == IF disp.pc = "generic"
                       THEN GenericArg(disp.msg)
                       ELSE CollectionArg(disp.msg)
                d == [NoteBody(disp, b) EXCEPT
                        !.pending = @ \ {h},
                        !.handlerThrew = @ \/ b = "throw",
                        !.log = Append(@, Invocation(pass, h, event, arg))]
            IN disp' = Advance(d, eventHandlers, subscriptions')
    /\ UNCHANGED <<ws, stale, wsCtorThrows, wsReconnectAttempts, timers,
                   eventHandlers, reqVars, appVars, dataVars>>

(* the cursor of forEach after the body of the entry at position i ran:    *)
(* an entry deleted at or before i moves the later entries down by one     *)
CursorAfter(before, after, i) ==
    IF Len(after) < Len(before) /\ \E j \in 1..i : ~MapHas(after, before[j].key)
    THEN i - 1
    ELSE i

(* this.subscriptions.forEach(...): the next entry is visited; its         *)
(* callback is called if the key matches, with no try/catch around it      *)
VisitSubscription ==
    /\ disp.pc = "subs"
    /\ LET i == disp.cursor + 1
           entry == subscriptions[i]
       IN IF Matches(entry.key, disp.msg)
          THEN \E b \in Behaviours :
                 /\ RunBody(b)
                 /\ LET d == [NoteBody(disp, b) EXCEPT
                                !.log = Append(@, Invocation(3, entry.callback, entry.key,
                                                             SubscriptionArg(disp.msg))),
                                !.cursor = CursorAfter(subscriptions, subscriptions', i)]
                    IN disp' = IF b = "throw"
                               THEN [d EXCEPT !.pc = "done", !.threw = TRUE]
                               ELSE Advance(d, eventHandlers, subscriptions')
          ELSE /\ disp' = Advance([disp EXCEPT !.cursor = i], eventHandlers, subscriptions)
               /\ UNCHANGED <<subscriptions, lastCall, wsHist>>
    /\ UNCHANGED <<ws, stale, wsCtorThrows, wsReconnectAttempts, timers,
                   eventHandlers, reqVars, appVars, dataVars>>

MsgInit ==
    /\ lastCall = NoCall
    /\ disp = NoDispatch

WsNext ==
    \/ connectWebSocket
    \/ scheduleReconnectCall
    \/ SocketOpens
    \/ StaleSocketOpens
    \/ SocketCloses
    \/ StaleSocketCloses
    \/ ReconnectTimer
    \/ destroy
    \/ on

(* the owner listens to the events of inbound messages *)
onMessageEvent == On(MessageEvents)

(* the dispatch of inbound messages, interleaved with the subscription     *)
(* calls and the registration of handlers (handleWebSocketMessage does not *)
(* look at the socket)                                                     *)
MsgNext ==
    \/ subscribe
    \/ unsubscribe
    \/ onMessageEvent
    \/ handleWebSocketMessage
    \/ InvokeHandler
    \/ VisitSubscription

(* the control frames: the subscription calls and sendWebSocketMessage,    *)
(* with the socket connecting, opening and closing (the reconnect timers   *)
(* are followed in SpecWs and SpecSub)                                     *)
FrameNext ==
    \/ subscribe
    \/ unsubscribe
    \/ sendWebSocketMessage
    \/ connectWebSocket
    \/ SocketOpens
    \/ SocketCloses

(* the subscription calls, interleaved with the owner's connect calls and  *)
(* the connection's own events                                             *)
SubNext ==
    \/ subscribe
    \/ unsubscribe
    \/ connectWebSocket
    \/ SocketOpens
    \/ StaleSocketOpens
    \/ SocketCloses
    \/ StaleSocketCloses
    \/ ReconnectTimer

(***************************************************************************)
(* The function subscribe returns                                          *)
(***************************************************************************)

(* () => this.unsubscribe(collection, eventType): the closure holds the    *)
(* pair; callback, the callback of the subscribe call that returned it, is *)
(* history                                                                 *)
Unsubscriber(collection, eventType, callback) ==
    [collection |-> collection, eventType |-> eventType, callback |-> callback]

(* held: the functions the owner keeps; calls and last are history: the    *)
(* calls of such functions made, and the function called last              *)
NoUnsubscribers ==
    [ held |-> {}, calls |-> 0, last |-> Unsubscriber(NoCollection, NoEventType, "") ]

UnsubscriberInit == unsubscribers = NoUnsubscribers

(* const stop = api.subscribe(collection, callback, eventType) *)
subscribeKeeping ==
    /\ ~wsHist.destroyed
    /\ Quiet
    /\ wsHist.subOps < MaxSubOps
    /\ \E c \in Collections, cb \in Callbacks, e \in EventTypes :
         /\ Subscribe(c, cb, e)
         /\ unsubscribers' = [unsubscribers EXCEPT !.held = @ \cup {Unsubscriber(c, e, cb)}]
    /\ UNCHANGED <<ws, stale, wsCtorThrows, wsReconnectAttempts, timers,
                   eventHandlers, disp, reqVars, dataVars,
                   summary, item, rsvp, emitter, todo, lists>>

(* stop() *)
callUnsubscriber ==
    /\ Quiet
    /\ unsubscribers.calls < MaxUnsubscriberCalls
    /\ \E u \in unsubscribers.held :
         /\ Unsubscribe(u.collection, u.eventType)
         /\ unsubscribers' = [unsubscribers EXCEPT !.calls = @ + 1, !.last = u]
    /\ UNCHANGED <<ws, stale, wsCtorThrows, wsReconnectAttempts, timers,
                   eventHandlers, disp, reqVars, dataVars,
                   summary, item, rsvp, emitter, todo, lists>>

UnsubscriberNext ==
    \/ subscribeKeeping
    \/ callUnsubscriber
    \/ connectWebSocket
    \/ SocketOpens
    \/ SocketCloses

(***************************************************************************)
(* Picnic documents: createPicnic and deletePicnic against the backend     *)
(***************************************************************************)

(* this.collections *)
collections ==
    [ picnics |-> "picnics", participants |-> "picnic_participants",
      items |-> "picnic_items", expenses |-> "picnic_expenses" ]

(* the collections whose documents carry a picnic_id *)
RelatedCollections == { collections.participants, collections.items, collections.expenses }

(* document ids the backend hands out; NoId stands for a missing id *)
NoId == 0
Ids == 1..MaxDocs

(* getCurrentUserId() with no user info on the page *)
CurrentUser == "mock-user-id"
OtherUser == "other-user"

(* picnicData.organizer_id as the caller passes it: absent, or some user *)
SuppliedOrganizers == {"", OtherUser}

Doc(collection, id, picnic_id, user_id, rsvp_status, organizer_id) ==
    [ collection |-> collection, id |-> id, picnic_id |-> picnic_id,
      user_id |-> user_id, rsvp_status |-> rsvp_status,
      organizer_id |-> organizer_id ]

NoDoc == Doc("", NoId, NoId, "", "", "")

(* { ...picnicData, organizer_id: this.getCurrentUserId(), ... } *)
PicnicPayload(picnicData) == [picnicData EXCEPT !.organizer_id = CurrentUser]

(* the argument of createParticipant in createPicnic *)
OrganizerParticipant(picnicId) ==
    Doc(collections.participants, NoId, picnicId, CurrentUser, "going", "")

(* the id the backend gives the next document, `issued` ids having been    *)
(* handed out: an id is never used twice                                   *)
FreshId(issued) == issued + 1

HasRoom(issued) == FreshId(issued) \in Ids

(* POST /<collection>: the backend stores the payload under a fresh id *)
Stored(issued, payload) == [payload EXCEPT !.id = FreshId(issued)]

(* the documents of collection c with picnic_id = p: what               *)
(* POST /<c>/query with the filter picnic_id == p answers                  *)
QueryByPicnic(ds, c, p) == { d \in ds : d.collection = c /\ d.picnic_id = p }

(* { operation: 'delete', collection, id } *)
DeleteOp(collection, id) == [operation |-> "delete", collection |-> collection, id |-> id]

(* POST /batch: the backend carries out the operations *)
ApplyBatch(ds, operations) ==
    { d \in ds : DeleteOp(d.collection, d.id) \notin operations }

(* the picnic p and the documents that belong to it *)
Related(ds, p) ==
    { d \in ds : \/ (d.collection = collections.picnics /\ d.id = p)
                 \/ (d.collection \in RelatedCollections /\ d.picnic_id = p) }

(* op: the method running; pc: the request it awaits; id: the picnic       *)
(* (deletePicnic's argument, or response.id of createPicnic); data: the    *)
(* payload posted; operations: the batch being collected.  History:        *)
(* supplied is the organizer_id the caller passed, batches counts the      *)
(* batch requests sent, raced tells that another operation stored a        *)
(* document of the picnic between deletePicnic's call and its batch,       *)
(* issued counts the ids the backend has handed out so far (kept across    *)
(* the calls).                                                             *)
IdleTask ==
    [ op |-> "none", pc |-> "idle", id |-> NoId, data |-> NoDoc,
      operations |-> {}, supplied |-> "", batches |-> 0, raced |-> FALSE,
      issued |-> 0 ]

TaskSettled == task.pc \in {"idle", "resolved", "rejected"}

DataInit ==
    /\ docs = {}
    /\ task = IdleTask

(* createPicnic(picnicData) up to the first await *)
createPicnic ==
    /\ TaskSettled
    /\ \E o \in SuppliedOrganizers :
         task' = [ IdleTask EXCEPT
                     !.issued = task.issued,
                     !.op = "createPicnic", !.pc = "postPicnic", !.supplied = o,
                     !.data = PicnicPayload(Doc(collections.picnics, NoId, NoId, "", "", o)) ]
    /\ UNCHANGED <<docs, reqVars, wsVars, msgVars, appVars>>

(* the POST of the picnic resolves: the backend stored it; with an id in   *)
(* the response createParticipant is called, without one createPicnic      *)
(* returns                                                                 *)
PicnicPostResolves ==
    /\ task.op = "createPicnic" /\ task.pc = "postPicnic"
    /\ HasRoom(task.issued)
    /\ LET stored == Stored(task.issued, task.data) IN
         /\ docs' = docs \cup {stored}
         /\ \E hasId \in BOOLEAN :
              task' = IF hasId
                      THEN [task EXCEPT !.pc = "postParticipant", !.id = stored.id,
                                        !.data = OrganizerParticipant(stored.id),
                                        !.issued = stored.id]
                      ELSE [task EXCEPT !.pc = "resolved", !.issued = stored.id]
    /\ UNCHANGED <<reqVars, wsVars, msgVars, appVars>>

(* the POST of the picnic rejects: createPicnic rejects *)
PicnicPostRejects ==
    /\ task.op = "createPicnic" /\ task.pc = "postPicnic"
    /\ task' = [task EXCEPT !.pc = "rejected"]
    /\ UNCHANGED <<docs, reqVars, wsVars, msgVars, appVars>>

(* the POST of the participant resolves: createPicnic returns the picnic *)
ParticipantPostResolves ==
    /\ task.op = "createPicnic" /\ task.pc = "postParticipant"
    /\ HasRoom(task.issued)
    /\ docs' = docs \cup {Stored(task.issued, task.data)}
    /\ task' = [task EXCEPT !.pc = "resolved", !.issued = FreshId(@)]
    /\ UNCHANGED <<reqVars, wsVars, msgVars, appVars>>

(* the POST of the participant rejects: createPicnic rejects, with nothing *)
(* done about the picnic already stored                                    *)
ParticipantPostRejects ==
    /\ task.op = "createPicnic" /\ task.pc = "postParticipant"
    /\ task' = [task EXCEPT !.pc = "rejected"]
    /\ UNCHANGED <<docs, reqVars, wsVars, msgVars, appVars>>

(* deletePicnic(id), for a picnic the backend holds, up to the first await *)
deletePicnic ==
    /\ TaskSettled
    /\ \E d \in docs :
         /\ d.collection = collections.picnics
         /\ task' = [ IdleTask EXCEPT
                        !.issued = task.issued,
                        !.op = "deletePicnic", !.pc = collections.participants,
                        !.id = d.id,
                        !.operations = {DeleteOp(collections.picnics, d.id)} ]
    /\ UNCHANGED <<docs, reqVars, wsVars, msgVars, appVars>>

(* the request deletePicnic makes after the query of collection c *)
AfterQuery(c) ==
    CASE c = collections.participants -> collections.items
      [] c = collections.items -> collections.expenses
      [] c = collections.expenses -> "batch"

(* get...ByPicnic(id) resolves: one delete operation per result *)
QueryResolves ==
    /\ task.op = "deletePicnic" /\ task.pc \in RelatedCollections
    /\ task' = [task EXCEPT
          !.operations = @ \cup { DeleteOp(d.collection, d.id) :
                                    d \in QueryByPicnic(docs, task.pc, task.id) },
          !.pc = AfterQuery(task.pc)]
    /\ UNCHANGED <<docs, reqVars, wsVars, msgVars, appVars>>

(* get...ByPicnic(id) rejects: deletePicnic rejects, nothing was deleted *)
QueryRejects ==
    /\ task.op = "deletePicnic" /\ task.pc \in RelatedCollections
    /\ task' = [task EXCEPT !.pc = "rejected"]
    /\ UNCHANGED <<docs, reqVars, wsVars, msgVars, appVars>>

(* batchOperations(operations) resolves *)
BatchResolves ==
    /\ task.op = "deletePicnic" /\ task.pc = "batch"
    /\ docs' = ApplyBatch(docs, task.operations)
    /\ task' = [task EXCEPT !.pc = "resolved", !.batches = @ + 1]
    /\ UNCHANGED <<reqVars, wsVars, msgVars, appVars>>

(* batchOperations(operations) rejects *)
BatchRejects ==
    /\ task.op = "deletePicnic" /\ task.pc = "batch"
    /\ task' = [task EXCEPT !.pc = "rejected", !.batches = @ + 1]
    /\ UNCHANGED <<docs, reqVars, wsVars, msgVars, appVars>>

(* another operation (createParticipant, createItem or createExpense, of   *)
(* this user in another view or of another user) stores a document for a   *)
(* picnic the backend holds                                                *)
OtherCreates ==
    /\ HasRoom(task.issued)
    /\ \E p \in docs, c \in RelatedCollections :
         /\ p.collection = collections.picnics
         /\ docs' = docs \cup
              { Stored(task.issued, Doc(c, NoId, p.id, OtherUser,
                                 IF c = collections.participants THEN "maybe" ELSE "",
                                 "")) }
         /\ task' = [task EXCEPT
               !.issued = FreshId(@),
               !.raced = @ \/ ( /\ task.op = "deletePicnic"
                                /\ task.pc \in RelatedCollections \cup {"batch"}
                                /\ p.id = task.id )]
    /\ UNCHANGED <<reqVars, wsVars, msgVars, appVars>>

DataNext ==
    \/ createPicnic
    \/ PicnicPostResolves
    \/ PicnicPostRejects
    \/ ParticipantPostResolves
    \/ ParticipantPostRejects
    \/ deletePicnic
    \/ QueryResolves
    \/ QueryRejects
    \/ BatchResolves
    \/ BatchRejects
    \/ OtherCreates

(***************************************************************************)
(* Expense summary: getExpenseSummary                                      *)
(***************************************************************************)

(* A JS Number is a binary floating-point value: the result of an addition *)
(* is rounded to the nearest value with Precision significant bits, ties   *)
(* to the even significand.  Precision is 53 in JS; it is scaled down here *)
(* (the amounts are counted in units of the smallest amount).              *)
Precision == 3

RECURSIVE BitLength(_)
BitLength(x) == IF x = 0 THEN 0 ELSE 1 + BitLength(x \div 2)

Round(x) ==
    IF BitLength(x) <= Precision THEN x
    ELSE LET q    == Pow2(BitLength(x) - Precision)
             down == x - (x % q)
             up   == down + q
         IN  IF 2 * (x - down) < q THEN down
             ELSE IF 2 * (x - down) > q THEN up
             ELSE IF (down \div q) % 2 = 0 THEN down ELSE up

(* a + b on Numbers *)
NumberAdd(a, b) == Round(a + b)

(* a / b on Numbers, kept as the fraction it is the value of *)
NumberDiv(a, b) == [num |-> a, den |-> b]

Zero == [num |-> 0, den |-> 1]

(* the expense documents of a query answer: amount, category, paid_by *)
Amounts == {0, 1, 2, 7}
Categories == {"food", "drinks"}
Payers == {CurrentUser, OtherUser}
Expenses == [amount : Amounts, category : Categories, paid_by : Payers]

RsvpStatuses == {"going", "maybe", "pending"}

SeqsUpTo(S, n) == UNION { [1..k -> S] : k \in 0..n }

(* a JS object used as a dictionary: a function on the keys it holds *)
EmptyObject == [k \in {} |-> 0]

(* !obj[key]: the key is absent (undefined) or its value is 0 *)
Falsy(obj, key) == key \notin DOMAIN obj \/ obj[key] = 0

ObjectSet(obj, key, value) ==
    [k \in DOMAIN obj \cup {key} |-> IF k = key THEN value ELSE obj[k]]

(* if (!obj[key]) obj[key] = 0;  obj[key] += amount; *)
AddTo(obj, key, amount) ==
    LET o == IF Falsy(obj, key) THEN ObjectSet(obj, key, 0) ELSE obj
    IN  ObjectSet(o, key, NumberAdd(o[key], amount))

NewSummary ==
    [ total |-> 0, by_category |-> EmptyObject, by_payer |-> EmptyObject,
      per_person |-> Zero, participant_count |-> 0 ]

(* the body of expenses.forEach *)
AddExpense(s, expense) ==
    [ s EXCEPT
        !.total = NumberAdd(@, expense.amount),
        !.by_category = AddTo(@, expense.category, expense.amount),
        !.by_payer = AddTo(@, expense.paid_by, expense.amount) ]

RECURSIVE Totals(_, _)
Totals(s, expenses) ==
    IF expenses = <<>> THEN s
    ELSE Totals(AddExpense(s, Head(expenses)), Tail(expenses))

(* participants.filter(p => p.rsvp_status === 'going').length *)
GoingCount(participants) == Len(SelectSeq(participants, LAMBDA st : st = "going"))

PerPerson(s, participants) ==
    LET n == GoingCount(participants) IN
    [ s EXCEPT
        !.participant_count = n,
        !.per_person = IF n > 0 THEN NumberDiv(s.total, n) ELSE Zero ]

(* pc: where getExpenseSummary is suspended; expenses and participants are *)
(* the answers of its two queries; result is its summary object.           *)
NoSummaryCall ==
    [ pc |-> "idle", expenses |-> <<>>, participants |-> <<>>, result |-> NewSummary ]

SummaryInit == summary = NoSummaryCall

(* getExpenseSummary(picnicId), up to await getExpensesByPicnic *)
getExpenseSummary ==
    /\ summary.pc \in {"idle", "resolved", "rejected"}
    /\ summary' = [NoSummaryCall EXCEPT !.pc = "expenses"]
    /\ UNCHANGED summaryFrame

(* getExpensesByPicnic resolves: the totals are computed and the           *)
(* participants are asked for                                              *)
ExpensesResolve ==
    /\ summary.pc = "expenses"
    /\ \E expenses \in SeqsUpTo(Expenses, MaxExpenses) :
         summary' = [ summary EXCEPT
                        !.pc = "participants",
                        !.expenses = expenses,
                        !.result = Totals(NewSummary, expenses) ]
    /\ UNCHANGED summaryFrame

ExpensesReject ==
    /\ summary.pc = "expenses"
    /\ summary' = [summary EXCEPT !.pc = "rejected"]
    /\ UNCHANGED summaryFrame

(* getParticipantsByPicnic resolves: answered by their rsvp_status *)
ParticipantsResolve ==
    /\ summary.pc = "participants"
    /\ \E participants \in SeqsUpTo(RsvpStatuses, MaxParticipants) :
         summary' = [ summary EXCEPT
                        !.pc = "resolved",
                        !.participants = participants,
                        !.result = PerPerson(@, participants) ]
    /\ UNCHANGED summaryFrame

ParticipantsReject ==
    /\ summary.pc = "participants"
    /\ summary' = [summary EXCEPT !.pc = "rejected"]
    /\ UNCHANGED summaryFrame

SummaryNext ==
    \/ getExpenseSummary
    \/ ExpensesResolve
    \/ ExpensesReject
    \/ ParticipantsResolve
    \/ ParticipantsReject

(***************************************************************************)
(* Item assignment: assignItem and PicnicApp.assignToMe                    *)
(***************************************************************************)

Quantities == 1..MaxQuantity

Users == {CurrentUser, OtherUser}

(* the last assignItem request that settled: the quantity it asked for,    *)
(* quantity_assigned before it, and whether it resolved                    *)
NoAssign == [quantity |-> 0, before |-> 0, resolved |-> FALSE]

(* quantity_needed, quantity_assigned, assigned_to and status are the      *)
(* backend's document (quantity_needed 0: not created yet); local is       *)
(* quantity_assigned of the application's copy in this.items; pc and sent  *)
(* are the assignToMe call; accepted (the sum of the quantities of the     *)
(* requests that resolved), calls and last are history.                    *)
NoItem ==
    [ quantity_needed |-> 0, quantity_assigned |-> 0, assigned_to |-> "",
      status |-> "needed", local |-> 0, pc |-> "idle", sent |-> 0,
      accepted |-> 0, calls |-> 0, last |-> NoAssign ]

ItemInit == item = NoItem

ItemExists == item.quantity_needed > 0

(* PUT /picnic_items/<id> with assignItem's updates: the backend merges    *)
(* them into the document                                                  *)
UpdateItem(it, userId, quantity) ==
    [ it EXCEPT
        !.assigned_to = userId,
        !.quantity_assigned = quantity,
        !.status = "assigned" ]

Assigned(it, userId, quantity) ==
    [ UpdateItem(it, userId, quantity) EXCEPT
        !.accepted = @ + quantity,
        !.calls = @ + 1,
        !.last = [quantity |-> quantity, before |-> it.quantity_assigned,
                  resolved |-> TRUE] ]

NotAssigned(it, quantity) ==
    [ it EXCEPT
        !.calls = @ + 1,
        !.last = [quantity |-> quantity, before |-> it.quantity_assigned,
                  resolved |-> FALSE] ]

(* createItem: quantity_assigned takes the schema's default 0; the         *)
(* application loads the item                                              *)
createItem ==
    /\ ~ItemExists
    /\ \E n \in Quantities : item' = [NoItem EXCEPT !.quantity_needed = n]
    /\ UNCHANGED itemFrame

(* api.assignItem(itemId, userId, quantity), the request resolving *)
assignItem ==
    /\ ItemExists
    /\ item.calls < MaxAssigns
    /\ \E u \in Users, q \in Quantities : item' = Assigned(item, u, q)
    /\ UNCHANGED itemFrame

(* api.assignItem(...), the request failing *)
assignItemRejects ==
    /\ ItemExists
    /\ item.calls < MaxAssigns
    /\ \E q \in Quantities : item' = NotAssigned(item, q)
    /\ UNCHANGED itemFrame

(* app.assignToMe(itemId), up to await this.api.assignItem: the remaining  *)
(* quantity is computed from the application's copy                        *)
assignToMe ==
    /\ ItemExists
    /\ item.pc = "idle"
    /\ item.calls < MaxAssigns
    /\ item' = [ item EXCEPT
                   !.pc = "assigning",
                   !.sent = item.quantity_needed - item.local ]
    /\ UNCHANGED itemFrame

AssignToMeResolves ==
    /\ item.pc = "assigning"
    /\ item' = [ Assigned(item, CurrentUser, item.sent) EXCEPT !.pc = "reloading" ]
    /\ UNCHANGED itemFrame

(* the catch of assignToMe *)
AssignToMeRejects ==
    /\ item.pc = "assigning"
    /\ item' = [ NotAssigned(item, item.sent) EXCEPT !.pc = "idle" ]
    /\ UNCHANGED itemFrame

(* this.items = await this.api.getItemsByPicnic(...) *)
ReloadItemsResolves ==
    /\ item.pc = "reloading"
    /\ item' = [ item EXCEPT !.pc = "idle", !.local = item.quantity_assigned ]
    /\ UNCHANGED itemFrame

ReloadItemsRejects ==
    /\ item.pc = "reloading"
    /\ item' = [ item EXCEPT !.pc = "idle" ]
    /\ UNCHANGED itemFrame

(* handleItemUpdate, document_updated: the copy takes the event's data *)
handleItemUpdate ==
    /\ ItemExists
    /\ item.local # item.quantity_assigned
    /\ item' = [ item EXCEPT !.local = item.quantity_assigned ]
    /\ UNCHANGED itemFrame

ItemNext ==
    \/ createItem
    \/ assignItem
    \/ assignItemRejects
    \/ assignToMe
    \/ AssignToMeResolves
    \/ AssignToMeRejects
    \/ ReloadItemsResolves
    \/ ReloadItemsRejects
    \/ handleItemUpdate

(***************************************************************************)
(* RSVP: PicnicApp.submitRSVP, its participants list and the real-time     *)
(* participant events                                                      *)
(***************************************************************************)

Picnics == {1, 2}

NoPicnic == 0

SubmittedStatuses == {"going", "maybe"}

(* a participant document: only the fields submitRSVP and                  *)
(* handleParticipantUpdate read                                            *)
Participant(id, picnic_id, user_id, rsvp_status) ==
    Doc(collections.participants, id, picnic_id, user_id, rsvp_status, "")

(* records: the participant documents of the backend; currentPicnic: the   *)
(* id of this.currentPicnic; participants: this.participants; pc, existing *)
(* and data: the submitRSVP call (existing is existingRsvp.id, NoId when   *)
(* find returned undefined); submitted counts the calls; moved is history: *)
(* an update changed a record whose picnic_id was not the current picnic.  *)
NoRsvp ==
    [ records |-> {}, currentPicnic |-> NoPicnic, participants |-> <<>>,
      pc |-> "idle", existing |-> NoId, data |-> NoDoc, submitted |-> 0,
      moved |-> FALSE ]

RsvpInit == rsvp = NoRsvp

(* the answer of getParticipantsByPicnic: the records of the picnic, by id *)
RECURSIVE ById(_)
ById(ds) ==
    IF ds = {} THEN <<>>
    ELSE LET d == CHOOSE x \in ds : \A y \in ds : x.id <= y.id
         IN  <<d>> \o ById(ds \ {d})

ParticipantsOf(records, picnicId) ==
    ById({ d \in records : d.picnic_id = picnicId })

(* this.participants.find(p => p.user_id === this.currentUser.id) *)
FindExisting(participants) ==
    LET hits == { i \in DOMAIN participants : participants[i].user_id = CurrentUser }
    IN  IF hits = {} THEN NoId
        ELSE participants[CHOOSE i \in hits : \A j \in hits : i <= j].id

(* PUT /picnic_participants/<id>: the backend merges the updates into the  *)
(* document with that id                                                   *)
UpdateParticipant(records, id, updates) ==
    { IF d.id = id
      THEN [d EXCEPT !.picnic_id = updates.picnic_id, !.user_id = updates.user_id,
                     !.rsvp_status = updates.rsvp_status]
      ELSE d : d \in records }

(* viewPicnic: getPicnic and getParticipantsByPicnic resolve *)
viewPicnic ==
    /\ rsvp.pc = "idle"
    /\ \E p \in Picnics :
         rsvp' = [ rsvp EXCEPT
                     !.currentPicnic = p,
                     !.participants = ParticipantsOf(rsvp.records, p) ]
    /\ UNCHANGED rsvpFrame

(* viewPicnic: getPicnic resolves, getParticipantsByPicnic rejects (catch) *)
viewPicnicFails ==
    /\ rsvp.pc = "idle"
    /\ \E p \in Picnics : rsvp' = [rsvp EXCEPT !.currentPicnic = p]
    /\ UNCHANGED rsvpFrame

(* window.openRsvpModal(button) on a card of the dashboard *)
openRsvpModal ==
    /\ rsvp.pc = "idle"
    /\ \E p \in Picnics : rsvp' = [rsvp EXCEPT !.currentPicnic = p]
    /\ UNCHANGED rsvpFrame

(* submitRSVP, up to await updateParticipant / createParticipant *)
submitRSVP ==
    /\ rsvp.pc = "idle"
    /\ rsvp.currentPicnic # NoPicnic
    /\ rsvp.submitted < MaxRecords
    /\ \E st \in SubmittedStatuses :
         rsvp' = [ rsvp EXCEPT
                     !.pc = "saving",
                     !.submitted = @ + 1,
                     !.existing = FindExisting(rsvp.participants),
                     !.data = Participant(NoId, rsvp.currentPicnic, CurrentUser, st) ]
    /\ UNCHANGED rsvpFrame

SaveResolves ==
    /\ rsvp.pc = "saving"
    /\ rsvp' = [ rsvp EXCEPT
                   !.pc = "reloading",
                   !.records =
                       IF rsvp.existing # NoId
                       THEN UpdateParticipant(@, rsvp.existing, rsvp.data)
                       ELSE @ \cup {Stored(Cardinality(@), rsvp.data)},
                   !.moved = @ \/ \E d \in rsvp.records :
                                     /\ d.id = rsvp.existing
                                     /\ d.picnic_id # rsvp.data.picnic_id ]
    /\ UNCHANGED rsvpFrame

(* the catch of submitRSVP *)
SaveRejects ==
    /\ rsvp.pc = "saving"
    /\ rsvp' = [rsvp EXCEPT !.pc = "idle"]
    /\ UNCHANGED rsvpFrame

(* this.participants = await this.api.getParticipantsByPicnic(...) *)
ReloadParticipantsResolves ==
    /\ rsvp.pc = "reloading"
    /\ rsvp' = [ rsvp EXCEPT
                   !.pc = "idle",
                   !.participants = ParticipantsOf(rsvp.records, rsvp.currentPicnic) ]
    /\ UNCHANGED rsvpFrame

ReloadParticipantsRejects ==
    /\ rsvp.pc = "reloading"
    /\ rsvp' = [rsvp EXCEPT !.pc = "idle"]
    /\ UNCHANGED rsvpFrame

(* handleParticipantUpdate, document_created: the event of a record of the *)
(* backend, whatever its picnic                                            *)
ParticipantCreatedEvent ==
    /\ Len(rsvp.participants) < MaxLocal
    /\ \E d \in rsvp.records :
         rsvp' = [rsvp EXCEPT !.participants = Append(@, d)]
    /\ UNCHANGED rsvpFrame

(* handleParticipantUpdate, document_updated *)
ParticipantUpdatedEvent ==
    /\ \E d \in rsvp.records :
         /\ \E i \in DOMAIN rsvp.participants :
              rsvp.participants[i].id = d.id /\ rsvp.participants[i] # d
         /\ LET i == CHOOSE j \in DOMAIN rsvp.participants :
                        /\ rsvp.participants[j].id = d.id
                        /\ \A k \in 1..(j - 1) : rsvp.participants[k].id # d.id
            IN  /\ rsvp.participants[i] # d
                /\ rsvp' = [rsvp EXCEPT !.participants[i] = d]
    /\ UNCHANGED rsvpFrame

RsvpNext ==
    \/ viewPicnic
    \/ viewPicnicFails
    \/ openRsvpModal
    \/ submitRSVP
    \/ SaveResolves
    \/ SaveRejects
    \/ ReloadParticipantsResolves
    \/ ReloadParticipantsRejects
    \/ ParticipantCreatedEvent
    \/ ParticipantUpdatedEvent

(***************************************************************************)
(* Event emitter: on, off and emit                                         *)
(***************************************************************************)

EmitterEvents == { <<"test-event">>, EventName(<<"connected">>) }

Listeners == {"h1", "h2"}

EmitData == {"test-data", "other-data"}

(* a JS Set: its values in insertion order, none twice *)
SetHas(set, value) == \E i \in DOMAIN set : set[i] = value

(* mutant: add appends the value even when the Set holds it *)
SetAddAgain(set, value) == Append(set, value)

(* Set.prototype.add *)
SetAdd(set, value) == IF SetHas(set, value) THEN set ELSE Append(set, value)

(* Set.prototype.delete *)
SetDelete(set, value) == SelectSeq(set, LAMBDA v : v # value)

(* on(event, callback): the Map after it *)
OnMap(handlers, event, callback) ==
    LET set == IF event \in DOMAIN handlers THEN handlers[event] ELSE <<>>
    IN  [e \in DOMAIN handlers \cup {event} |->
            IF e = event THEN SetAdd(set, callback) ELSE handlers[e]]

(* off(event, callback): the Map after it *)
OffMap(handlers, event, callback) ==
    IF event \in DOMAIN handlers
    THEN [handlers EXCEPT ![event] = SetDelete(@, callback)]
    ELSE handlers

(* emit(event, data): the calls it makes, in order.  Every callback runs   *)
(* inside try/catch, so one that throws (throwers) does not end the loop.  *)
EmitCalls(handlers, event, data, throwers) ==
    IF event \in DOMAIN handlers
    THEN [i \in DOMAIN handlers[event] |-> [callback |-> handlers[event][i], data |-> data]]
    ELSE <<>>

NoEmit == [op |-> "none", event |-> <<>>, data |-> "", calls |-> <<>>, throwers |-> {}]

(* handlers: this.eventHandlers.  The rest is history: registered, the     *)
(* (event, callback) pairs whose last call was on(); onCalls, the on()     *)
(* calls of a pair since its last off(); removed, the pairs whose last     *)
(* call was off(); ops, the calls made; last, the last call.               *)
NewEmitter ==
    [ handlers |-> <<>>, registered |-> {}, removed |-> {},
      onCalls |-> [p \in EmitterEvents \X Listeners |-> 0],
      ops |-> 0, last |-> NoEmit ]

EmitterInit == emitter = NewEmitter

onListener ==
    /\ emitter.ops < MaxEmitterOps
    /\ \E e \in EmitterEvents, h \in Listeners :
         emitter' = [ emitter EXCEPT
                        !.handlers = OnMap(@, e, h),
                        !.registered = @ \cup {<<e, h>>},
                        !.removed = @ \ {<<e, h>>},
                        !.onCalls[<<e, h>>] = @ + 1,
                        !.ops = @ + 1,
                        !.last = [NoEmit EXCEPT !.op = "on", !.event = e] ]
    /\ UNCHANGED emitterFrame

off ==
    /\ emitter.ops < MaxEmitterOps
    /\ \E e \in EmitterEvents, h \in Listeners :
         emitter' = [ emitter EXCEPT
                        !.handlers = OffMap(@, e, h),
                        !.registered = @ \ {<<e, h>>},
                        !.removed = @ \cup {<<e, h>>},
                        !.onCalls[<<e, h>>] = 0,
                        !.ops = @ + 1,
                        !.last = [NoEmit EXCEPT !.op = "off", !.event = e] ]
    /\ UNCHANGED emitterFrame

emitEvent ==
    /\ emitter.ops < MaxEmitterOps
    /\ \E e \in EmitterEvents, d \in EmitData, throwers \in SUBSET Listeners :
         emitter' = [ emitter EXCEPT
                        !.ops = @ + 1,
                        !.last = [ op |-> "emit", event |-> e, data |-> d,
                                   calls |-> EmitCalls(emitter.handlers, e, d, throwers),
                                   throwers |-> throwers ] ]
    /\ UNCHANGED emitterFrame

EmitterNext ==
    \/ onListener
    \/ off
    \/ emitEvent

(***************************************************************************)
(* TodoAPI.initializeCollection                                            *)
(***************************************************************************)

(* the answers to GET /collections/todos *)
TodoResponses ==
    { Response(200, b) : b \in OkBodies }
        \cup { Response(404, b) : b \in ErrorBodies }
        \cup { Response(500, b) :
                 b \in ErrorBodies \cup { Body("object", <<"Upstream", "returned", "404">>, "") } }

(* TodoAPI.makeRequest once fetch answered: the body it resolves with, or  *)
(* the error it throws.  errorData is {} when the body of an error         *)
(* response does not parse.                                                *)
TodoRequest(response) ==
    IF ~ok(response)
    THEN IF response.body.kind = "null"
         THEN [result |-> NoBody, err |-> NullMessageError]
         ELSE [result |-> NoBody, err |-> Err("Error", ErrorMessage(response))]
    ELSE IF response.body.kind = "invalid"
         THEN [result |-> NoBody, err |-> JsonSyntaxError]
         ELSE [result |-> response.body, err |-> NoErr]

(* the tokens of the messages that have the substring 404 *)
Has404 == {"404", "404:"}

(* the catch of initializeCollection: error.message.includes('404') *)
CollectionMissing(response, error) == \E w \in Has404 : includes(error.message, w)

(* pc: where initializeCollection is suspended; exists: the backend has    *)
(* the todos collection.  History: check, the answer to the existence      *)
(* check (NoResp when fetch rejected); checkErr, the error makeRequest     *)
(* threw for it; createCalled, createCollection was called; err, the error *)
(* initializeCollection rejected with; calls, the calls made.              *)
NoTodoCall ==
    [ pc |-> "idle", exists |-> FALSE, check |-> NoResp, checkErr |-> NoErr,
      createCalled |-> FALSE, err |-> NoErr, calls |-> 0 ]

TodoInit == todo = NoTodoCall

(* initializeCollection(), up to await this.makeRequest(..., 'GET') *)
initializeCollection ==
    /\ todo.pc \in {"idle", "resolved", "rejected"}
    /\ todo.calls < MaxInits
    /\ todo' = [ NoTodoCall EXCEPT
                   !.pc = "check", !.exists = todo.exists, !.calls = todo.calls + 1 ]
    /\ UNCHANGED todoFrame

AfterCheck(t, response, error) ==
    IF error = NoErr
    THEN [ t EXCEPT !.pc = "resolved", !.check = response ]
    ELSE IF CollectionMissing(response, error)
         THEN [ t EXCEPT !.pc = "create", !.check = response, !.checkErr = error,
                         !.createCalled = TRUE ]
         ELSE [ t EXCEPT !.pc = "rejected", !.check = response, !.checkErr = error,
                         !.err = error ]

(* the existence check is answered: 200 when the collection exists, 404    *)
(* when it does not, 500 at any time                                       *)
CheckResponds ==
    /\ todo.pc = "check"
    /\ \E r \in TodoResponses :
         /\ r.status = 200 => todo.exists
         /\ r.status = 404 => ~todo.exists
         /\ todo' = AfterCheck(todo, r, TodoRequest(r).err)
    /\ UNCHANGED todoFrame

(* fetch rejects *)
CheckFails ==
    /\ todo.pc = "check"
    /\ \E e \in FetchErrors : todo' = AfterCheck(todo, NoResp, e)
    /\ UNCHANGED todoFrame

(* POST /collections resolves *)
CreateCollectionResolves ==
    /\ todo.pc = "create"
    /\ ~todo.exists
    /\ todo' = [todo EXCEPT !.pc = "resolved", !.exists = TRUE]
    /\ UNCHANGED todoFrame

(* POST /collections rejects *)
CreateCollectionRejects ==
    /\ todo.pc = "create"
    /\ \E r \in { x \in TodoResponses : ~ok(x) } :
         todo' = [todo EXCEPT !.pc = "rejected", !.err = TodoRequest(r).err]
    /\ UNCHANGED todoFrame

(* another client creates the collection *)
CollectionCreatedElsewhere ==
    /\ ~todo.exists
    /\ todo' = [todo EXCEPT !.exists = TRUE]
    /\ UNCHANGED todoFrame

TodoNext ==
    \/ initializeCollection
    \/ CheckResponds
    \/ CheckFails
    \/ CreateCollectionResolves
    \/ CreateCollectionRejects
    \/ CollectionCreatedElsewhere

(***************************************************************************)
(* PicnicApp's local lists: createPicnic, loadDashboardData and the        *)
(* document_created events                                                 *)
(***************************************************************************)

(* a document_created message of the socket for the document id *)
CreatedEvent(collection, id) == [collection |-> collection, id |-> id]

(* the documents of an answer, by id *)
RECURSIVE Ascending(_)
Ascending(S) ==
    IF S = {} THEN <<>>
    ELSE LET x == CHOOSE y \in S : \A z \in S : y <= z
         IN  <<x>> \o Ascending(S \ {x})

(* pc: where PicnicApp.createPicnic is suspended; picnics and participants *)
(* are this.picnics and this.participants (the ids of their entries);      *)
(* stored holds the ids of the backend's documents per collection; events  *)
(* are the document_created messages sent and not yet received; creates    *)
(* counts the createPicnic calls.                                          *)
NoLists ==
    [ pc |-> "idle", picnics |-> <<>>, participants |-> <<>>,
      stored |-> [picnics |-> {}, participants |-> {}],
      events |-> <<>>, creates |-> 0 ]

ListsInit == lists = NoLists

(* PicnicApp.createPicnic, up to await this.api.createPicnic(picnicData) *)
appCreatePicnic ==
    /\ lists.pc = "idle"
    /\ lists.creates < MaxCreates
    /\ lists' = [lists EXCEPT !.pc = "creating", !.creates = @ + 1]
    /\ UNCHANGED listsFrame

(* api.createPicnic resolves: the backend stored the picnic and the        *)
(* organizer's participant and sends a document_created message for each;  *)
(* the dashboard is reloaded                                               *)
AppCreateResolves ==
    /\ lists.pc = "creating"
    /\ lists' = [ lists EXCEPT
                    !.pc = "loading",
                    !.stored.picnics = @ \cup {lists.creates},
                    !.stored.participants = @ \cup {lists.creates},
                    !.events = @ \o << CreatedEvent(collections.picnics, lists.creates),
                                       CreatedEvent(collections.participants, lists.creates) >> ]
    /\ UNCHANGED listsFrame

(* the catch of PicnicApp.createPicnic *)
AppCreateRejects ==
    /\ lists.pc \in {"creating", "loading"}
    /\ lists' = [lists EXCEPT !.pc = "idle"]
    /\ UNCHANGED listsFrame

(* loadDashboardData: this.picnics = picnicsResponse.documents || [] *)
LoadDashboardResolves ==
    /\ lists.pc = "loading"
    /\ lists' = [ lists EXCEPT !.pc = "idle",
                               !.picnics = Ascending(lists.stored.picnics) ]
    /\ UNCHANGED listsFrame

(* viewPicnic / submitRSVP: this.participants = await                      *)
(* getParticipantsByPicnic(...)                                            *)
LoadParticipantsResolves ==
    /\ lists.pc = "idle"
    /\ lists.participants # Ascending(lists.stored.participants)
    /\ lists' = [ lists EXCEPT !.participants = Ascending(lists.stored.participants) ]
    /\ UNCHANGED listsFrame

(* the socket delivers the next document_created message:                  *)
(* handlePicnicUpdate does this.picnics.unshift(data),                     *)
(* handleParticipantUpdate does this.participants.push(data)               *)
DocumentCreatedEvent ==
    /\ lists.events # <<>>
    /\ LET e == Head(lists.events) IN
         lists' = IF e.collection = collections.picnics
                  THEN [ lists EXCEPT !.events = Tail(@),
                                      !.picnics = <<e.id>> \o @ ]
                  ELSE [ lists EXCEPT !.events = Tail(@),
                                      !.participants = Append(@, e.id) ]
    /\ UNCHANGED listsFrame

ListsNext ==
    \/ appCreatePicnic
    \/ AppCreateResolves
    \/ AppCreateRejects
    \/ LoadDashboardResolves
    \/ LoadParticipantsResolves
    \/ DocumentCreatedEvent

(***************************************************************************)
(* Properties                                                              *)
(***************************************************************************)

(* C1: a 401 triggers handleAuthError exactly once per original call and   *)
(* the request is replayed exactly once; a second 401 fails the call       *)
(* without another refresh or replay.                                      *)
C1_OneRefreshOneReplay ==
    /\ call.authCalls <= 1
    /\ call.replays <= 1
    /\ (call.n401 >= 2 => call.pc = "rejected")

(* the subscribe frames among `frames` whose key is k *)
SubscribeFramesFor(frames, k) ==
    { i \in DOMAIN frames :
        /\ frames[i].type = "subscribe"
        /\ SubKey(frames[i].collection, frames[i].eventType) = k }

(* C2: when the socket opens, exactly one subscribe frame is sent for each *)
(* key in the subscription map, none omitted and none duplicated.          *)
C2_ResubscribeOnOpen ==
    LET o == wsHist.lastOpen IN
    /\ \A k \in o.keys : Cardinality(SubscribeFramesFor(o.frames, k)) = 1
    /\ Len(o.frames) = Cardinality(o.keys)

(* C3: after one 401, a successful refresh and a successful replay, the    *)
(* call returns the replay's parsed body and the replay carried the        *)
(* refreshed token (the one refreshToken() answered last when the replay   *)
(* was sent); a refresh updates the stored token; and every fetch of the   *)
(* next call carries the refreshed token.                                  *)
C3_RefreshRoundTrip ==
    /\ (refreshAvailable /\ Single401Ok(call)) =>
          /\ call.resp.status = 200
          /\ call.result = call.resp.body
          /\ call.lastSent \in RefreshedTokens
          /\ call.lastSent = call.refAtSend
    /\ (lastRefreshed # NoToken => auth = lastRefreshed)
    /\ (call.after401Ok /\ call.fetches > 0) =>
          /\ call.lastSent \in RefreshedTokens
          /\ call.lastSent = call.refAtSend

(* C3 witness: a call that went 401, refresh, successful replay, made      *)
(* right after another call that went the same way                         *)
C3_Witness ==
    /\ refreshAvailable
    /\ Single401Ok(call)
    /\ call.after401Ok
    /\ call.result.value = "v2"

(* C4: when every attempt fails at transport level the call makes exactly  *)
(* 3 fetch attempts, waits retryDelay * attemptNumber before each retry,   *)
(* and rejects with the network error.                                     *)
C4_ThreeAttempts ==
    (call.pc = "rejected" /\ call.fetches > 0 /\ call.nNet = call.fetches) =>
        /\ call.fetches = 3
        /\ call.waits = <<retryDelay * 1, retryDelay * 2>>
        /\ call.err \in FetchErrors

(* C5: a non-OK response other than 401 is never retried: the call rejects *)
(* with no further fetch, and the error carries the body's message if      *)
(* present, else the status line.                                          *)
C5_HttpErrorNotRetried ==
    call.httpErrAt # 0 =>
        /\ call.pc = "rejected"
        /\ call.fetches = call.httpErrAt
        /\ call.err = Err("Error", ErrorMessage(call.resp))

(* C6: if the token refresh fails after a 401, the call rejects at once    *)
(* with the authentication error: no further fetch, and the failed refresh *)
(* left the stored token as it was.                                        *)
C6_RefreshFailureRejects ==
    call.refreshFailedAt # 0 =>
        /\ call.pc = "rejected"
        /\ call.err = AuthFailedError
        /\ call.fetches = call.refreshFailedAt
        /\ call.authAfterFail = call.authAtFail

(* C6 witness: a refresh failed on a replayed request *)
C6_Witness ==
    /\ call.refreshFailedAt > 1
    /\ call.pc = "rejected"
    /\ call.err = AuthFailedError

(* C7: reconnect attempt n (from 0 since the last open) is scheduled after *)
(* wsReconnectDelay * 2^n, and no attempt is made once                     *)
(* maxWsReconnectAttempts attempts have been made.                         *)
C7_BackoffSequence ==
    LET a == wsHist.lastAttempt IN
    a.n >= 0 =>
        /\ a.delay = wsReconnectDelay * Pow2(a.n)
        /\ a.n < maxWsReconnectAttempts

C9_DestroyIsTerminal ==
    wsHist.destroyed =>
        /\ ws = "null"
        /\ ~wsHist.scheduledAfterDestroy
        /\ ~wsHist.createdAfterDestroy

(* C10: at most one socket of the client is CONNECTING or OPEN. *)
C10_SingleConnection == LiveSockets <= 1

DispatchEnds == disp'.pc = "done" /\ (disp.pc # "done" \/ disp'.n # disp.n)

(* the key of a subscription the message m is for *)
Expected(k, m) ==
    /\ m.collection # NoCollection
    /\ k \in { SubKey(m.collection, NoEventType), SubKey(m.collection, m.type) }

(* C12: when a dispatch ends (no handler or callback having changed the    *)
(* subscriptions), the callbacks it invoked are exactly those registered   *)
(* for (collection, no event type) or (collection, type), each once, with  *)
(* the message's {type, collection, data, id}.                             *)
C12_ExactCallbacks ==
    [][ (DispatchEnds /\ ~disp'.reentered) =>
          \A i \in DOMAIN subscriptions' :
              LET k == subscriptions'[i].key
                  calls == { j \in DOMAIN disp'.log :
                               disp'.log[j].pass = 3 /\ disp'.log[j].key = k }
              IN /\ Cardinality(calls) = IF Expected(k, disp'.msg) THEN 1 ELSE 0
                 /\ \A j \in calls :
                      /\ disp'.log[j].who = subscriptions'[i].callback
                      /\ disp'.log[j].arg = SubscriptionArg(disp'.msg) ]_vars

C15_FramesWhenOpen ==
    lastCall.open =>
        /\ lastCall.op = "subscribe" =>
              lastCall.sent =
                  <<Frame("subscribe", lastCall.collection, lastCall.eventType)>>
        /\ lastCall.op = "unsubscribe" =>
              /\ lastCall.sent =
                   <<Frame("unsubscribe", lastCall.collection, lastCall.eventType)>>
              /\ ~MapHas(subscriptions, SubKey(lastCall.collection, lastCall.eventType))

(* C15 witness: a subscription with an event type was made and removed     *)
(* again on an OPEN socket                                                 *)
C15_Witness ==
    /\ ws = "OPEN"
    /\ lastCall.open
    /\ lastCall.op = "unsubscribe"
    /\ lastCall.eventType # NoEventType
    /\ wsHist.subOps = 2
    /\ subscriptions = <<>>

(* C16: with no socket, or one that is not OPEN, subscribe, unsubscribe    *)
(* and sendWebSocketMessage do not throw and send no frame; subscribe      *)
(* still records the callback and unsubscribe still removes the key.       *)
C16_NoFrameWhenNotOpen ==
    (lastCall.op # "none" /\ ~lastCall.open) =>
        LET k == SubKey(lastCall.collection, lastCall.eventType) IN
        /\ lastCall.sent = <<>>
        /\ ~lastCall.threw
        /\ lastCall.op = "subscribe" =>
              /\ MapHas(subscriptions, k)
              /\ MapGet(subscriptions, k) = lastCall.callback
        /\ lastCall.op = "unsubscribe" => ~MapHas(subscriptions, k)

(* C16 witness: a subscription was made and removed again while the socket *)
(* was still connecting                                                    *)
C16_Witness ==
    /\ ws = "CONNECTING"
    /\ ~lastCall.open
    /\ lastCall.op = "unsubscribe"
    /\ wsHist.subOps = 2
    /\ subscriptions = <<>>

(* C17: a fetch rejection within the retry bound is retried whatever the   *)
(* error's name or message, so a call rejects with a transport error only  *)
(* when its retries are used up, and a call whose only failures were       *)
(* rejected fetches resolves with the body of the response after one fetch *)
(* per failure plus one.                                                   *)
C17_RetryAnyRejection ==
    /\ (call.pc = "rejected" /\ call.err \in FetchErrors) =>
          call.retryCount = retryAttempts
    /\ (call.pc = "resolved" /\ call.n401 = 0 /\ call.httpErrAt = 0) =>
          /\ call.fetches = call.nNet + 1
          /\ call.result = call.resp.body

C19_OrganizerParticipant ==
    (task.op = "createPicnic" /\ task.pc \in {"resolved", "rejected"} /\ task.id # NoId) =>
        /\ Cardinality({ d \in QueryByPicnic(docs, collections.participants, task.id) :
                            d.user_id = CurrentUser /\ d.rsvp_status = "going" }) = 1
        /\ \A d \in docs :
              (d.collection = collections.picnics /\ d.id = task.id) =>
                  d.organizer_id = CurrentUser

(* C20: after deletePicnic(id) succeeded, one batch request was sent and   *)
(* neither the picnic nor any participant, item or expense with that       *)
(* picnic_id remains, also when other operations stored such documents     *)
(* while deletePicnic was running.                                         *)
C20_CascadeComplete ==
    (task.op = "deletePicnic" /\ task.pc = "resolved") =>
        /\ task.batches = 1
        /\ Related(docs, task.id) = {}

(* the sum of the values of a dictionary, exact *)
RECURSIVE ValuesSum(_)
ValuesSum(obj) ==
    IF DOMAIN obj = {} THEN 0
    ELSE LET k == CHOOSE x \in DOMAIN obj : TRUE
         IN  obj[k] + ValuesSum([x \in DOMAIN obj \ {k} |-> obj[x]])

RECURSIVE AmountsSum(_)
AmountsSum(expenses) ==
    IF expenses = <<>> THEN 0 ELSE Head(expenses).amount + AmountsSum(Tail(expenses))

(* the numbers sum to total, exactly or as a Number sum *)
SumsTo(exact, total) == exact = total \/ Round(exact) = total

(* C21: the summary getExpenseSummary returns has total equal to the sum   *)
(* of the amounts, by_category and by_payer values that each sum to total, *)
(* participant_count equal to the number of going participants, and        *)
(* per_person equal to total / participant_count, 0 when nobody is going.  *)
C21_ExpenseSummary ==
    summary.pc = "resolved" =>
        LET r == summary.result
            going == Cardinality({ i \in DOMAIN summary.participants :
                                      summary.participants[i] = "going" })
        IN  /\ SumsTo(AmountsSum(summary.expenses), r.total)
            /\ SumsTo(ValuesSum(r.by_category), r.total)
            /\ SumsTo(ValuesSum(r.by_payer), r.total)
            /\ r.participant_count = going
            /\ going > 0 => r.per_person.num * going = r.total * r.per_person.den
            /\ going = 0 => r.per_person.num = 0

(* C22: quantity_assigned of an item is the sum of the quantities assigned *)
(* to it and never exceeds quantity_needed; an assignment of more than     *)
(* the remaining need is rejected and leaves the item unchanged.           *)
C22_AssignmentBounded ==
    /\ item.quantity_assigned <= item.quantity_needed
    /\ item.quantity_assigned = item.accepted
    /\ (item.last.quantity > item.quantity_needed - item.last.before) =>
           /\ ~item.last.resolved
           /\ item.quantity_assigned = item.last.before

(* C23: the backend holds at most one participant record per picnic and   *)
(* user, and no RSVP has modified a record of another picnic than the      *)
(* current one.                                                            *)
C23_OneRecordPerUser ==
    /\ \A a, b \in rsvp.records :
          (a.picnic_id = b.picnic_id /\ a.user_id = b.user_id) => a.id = b.id
    /\ ~rsvp.moved

(* the calls of the last emit that went to callback h *)
CallsTo(h) == { i \in DOMAIN emitter.last.calls : emitter.last.calls[i].callback = h }

C25_Create404Only ==
    todo.pc \in {"create", "resolved", "rejected"} =>
        /\ todo.check.status = 404 => todo.createCalled
        /\ todo.check.status # 404 => ~todo.createCalled
        /\ (todo.check.status # 404 /\ todo.checkErr # NoErr) =>
               (todo.pc = "rejected" /\ todo.err = todo.checkErr)

(* C26: when createPicnic rejects, the backend holds no picnic document    *)
(* created by that call.                                                   *)
C26_AllOrNothing ==
    (task.op = "createPicnic" /\ task.pc = "rejected") =>
        ~\E d \in docs : d.collection = collections.picnics /\ d.id = task.id

(* C27: wsReconnectAttempts is between 0 and maxWsReconnectAttempts in    *)
(* every reachable state.                                                  *)
C27_AttemptsInRange ==
    wsReconnectAttempts >= 0 /\ wsReconnectAttempts <= maxWsReconnectAttempts

(* the dispatch that ended called handler h in the given pass *)
HandlerCalled(d, pass, h) ==
    \E j \in DOMAIN d.log : d.log[j].pass = pass /\ d.log[j].who = h

(* C28: when a dispatch ends in which a handler or a subscription callback *)
(* threw (none having changed the subscriptions), every handler of the two *)
(* events and every subscription callback the message is for was called.   *)
C28_ThrowIsolated ==
    [][ (DispatchEnds /\ ~disp'.reentered /\ (disp'.threw \/ disp'.handlerThrew)) =>
          LET m == disp'.msg IN
          /\ \A h \in emit(eventHandlers', EventName(m.type)) : HandlerCalled(disp', 1, h)
          /\ m.collection # NoCollection =>
                \A h \in emit(eventHandlers', CollectionEventName(m.collection, m.type)) :
                    HandlerCalled(disp', 2, h)
          /\ \A i \in DOMAIN subscriptions' :
                Expected(subscriptions'[i].key, m) =>
                    \E j \in DOMAIN disp'.log :
                        /\ disp'.log[j].pass = 3
                        /\ disp'.log[j].key = subscriptions'[i].key ]_vars

(* C29: calling a function subscribe returned, when its key is registered *)
(* with another callback than the one of the subscribe call that returned  *)
(* it, leaves that callback registered.                                    *)
C29_OwnRegistrationOnly ==
    [][ (unsubscribers'.calls # unsubscribers.calls) =>
          LET u == unsubscribers'.last
              k == SubKey(u.collection, u.eventType)
          IN  (MapHas(subscriptions, k) /\ MapGet(subscriptions, k) # u.callback) =>
                  /\ MapHas(subscriptions', k)
                  /\ MapGet(subscriptions', k) = MapGet(subscriptions, k) ]_vars

(* no value occurs twice in the list *)
NoDuplicates(list) ==
    \A i, j \in DOMAIN list : list[i] = list[j] => i = j

(* C30: this.picnics and this.participants never hold two entries with    *)
(* the same document id.                                                   *)
C30_NoDuplicateEntries ==
    NoDuplicates(lists.picnics) /\ NoDuplicates(lists.participants)

Init == ReqInit /\ WsInit /\ MsgInit /\ DataInit /\ SummaryInit /\ ItemInit /\ RsvpInit /\ EmitterInit /\ TodoInit /\ UnsubscriberInit /\ ListsInit

(* the request wrapper (the WebSocket part stays as constructed) *)
InitReq == Init /\ wsCtorThrows = FALSE

SpecReq == InitReq /\ [][ReqNext]_vars

(* the request wrapper when every fetch, refreshToken() and retry timer    *)
(* the call waits for eventually settles or fires                          *)
SpecReqLive ==
    /\ InitReq
    /\ [][ReqNext]_vars
    /\ WF_vars(FetchRejects \/ FetchResponds)
    /\ WF_vars(RefreshResolves \/ RefreshRejects)
    /\ WF_vars(AfterRefresh)
    /\ WF_vars(RetryTimer)

(* the WebSocket connection (no request is made) *)
InitWs == Init /\ refreshAvailable = TRUE

SpecWs == InitWs /\ [][WsNext]_vars

(* the WebSocket connection and the subscriptions *)
SpecSub == InitWs /\ [][SubNext]_vars

(* the subscriptions and the dispatch of inbound messages *)
InitMsg == InitWs /\ wsCtorThrows = FALSE

SpecMsg == InitMsg /\ [][MsgNext]_vars

(* the control frames of the subscription calls *)
SpecFrame == InitMsg /\ [][FrameNext]_vars

(* the picnic documents *)
SpecData == InitMsg /\ [][DataNext]_vars

(* the expense summary *)
SpecSummary == InitMsg /\ [][SummaryNext]_vars

(* the assignment of an item *)
SpecItem == InitMsg /\ [][ItemNext]_vars

(* the RSVP of the current user *)
SpecRsvp == InitMsg /\ [][RsvpNext]_vars

(* the event emitter *)
SpecEmitter == InitMsg /\ [][EmitterNext]_vars

(* the todos collection *)
SpecTodo == InitMsg /\ [][TodoNext]_vars

(* the functions subscribe returns *)
SpecUnsubscriber == InitMsg /\ [][UnsubscriberNext]_vars

(* the local lists of the application *)
SpecLists == InitMsg /\ [][ListsNext]_vars

====
